---- MODULE Spec2Model ----
(***************************************************************************)
(* Model of hetzner_drive_sync.py: the startup reconciliation pass         *)
(* (startup_sync), the watchdog event handlers (LocalHandler) and the      *)
(* orchestration in main, against an abstract WebDAV store.                *)
(*                                                                         *)
(* Strings are sequences of one-character strings, so that the string     *)
(* operations of the source (replace, lstrip, rstrip, split, len, f-string *)
(* concatenation) are computed and not assumed.  A pathlib.Path is a       *)
(* sequence of parts, each part a string.                                  *)
(***************************************************************************)
EXTENDS Integers, Sequences, FiniteSets, TLC

\* ------------------------------------------------------------------ bounds
\* Timestamps (file modification times) range over 1..MaxTime.
MaxTime == 2
\* Remote calls that fail although their WebDAV precondition holds.
MaxFaults == 1
\* Filesystem events the observer dispatches in one run.
MaxEvents == 2
\* Times the program is started again after it has exited.
MaxReruns == 1
\* Files that appear in the local tree while the program runs.
MaxCreates == 1

Times == 1..MaxTime

\* The store stamps an uploaded file with the time of the upload, which is
\* later than every modification time the trees start with.
UploadTime == MaxTime + 1

\* ------------------------------------------------------- string operations
Last(s) == s[Len(s)]

StartsWith(s, p) == Len(p) <= Len(s) /\ SubSeq(s, 1, Len(p)) = p

EndsWith(s, c) == Len(s) > 0 /\ s[Len(s)] = c

\* str.replace(old, new): every non-overlapping occurrence, left to right
\* (R[i] is the result for the part of s from position i on).
Replace(s, old, new) ==
    LET R[i \in 1..(Len(s) + 1)] ==
            IF i > Len(s) THEN <<>>
            ELSE IF i + Len(old) - 1 <= Len(s) /\ SubSeq(s, i, i + Len(old) - 1) = old
                 THEN new \o R[i + Len(old)]
                 ELSE <<s[i]>> \o R[i + 1]
    IN  R[1]

\* str.lstrip(c) and str.rstrip(c) for a single character c.
LStrip(s, c) ==
    LET k == CHOOSE i \in 1..(Len(s) + 1) :
                 /\ \A j \in 1..(i - 1) : s[j] = c
                 /\ i <= Len(s) => s[i] /= c
    IN  SubSeq(s, k, Len(s))

RStrip(s, c) ==
    LET k == CHOOSE i \in 0..Len(s) :
                 /\ \A j \in (i + 1)..Len(s) : s[j] = c
                 /\ i >= 1 => s[i] /= c
    IN  SubSeq(s, 1, k)

\* str.split(c): the fields between the occurrences of c (never empty;
\* F[i] is the result for the part of s from position i on).
Split(s, c) ==
    LET F[i \in 1..(Len(s) + 1)] ==
            IF \A j \in i..Len(s) : s[j] /= c THEN <<SubSeq(s, i, Len(s))>>
            ELSE LET k == CHOOSE k \in i..Len(s) :
                              s[k] = c /\ \A j \in i..(k - 1) : s[j] /= c
                 IN  <<SubSeq(s, i, k - 1)>> \o F[k + 1]
    IN  F[1]

\* os.sep.join(parts).
Join(parts, sep) ==
    LET J[i \in 1..(Len(parts) + 1)] ==
            IF i > Len(parts) THEN <<>>
            ELSE IF i = Len(parts) THEN parts[i]
                 ELSE parts[i] \o sep \o J[i + 1]
    IN  J[1]

\* ---------------------------------------------------------- path constants
\* REMOTE_DIR = "/HetznerDrive"; the folder name is abbreviated to "H".
REMOTE_DIR == <<"/", "H">>

\* LOCAL_DIR = Path("./HetznerDrive").resolve(): the parts below the
\* filesystem root, with the working directory abbreviated to "w".
LOCAL_DIR == << <<"w">>, <<"H">> >>

\* str(path) of a relative pathlib.Path on a POSIX system.
Str(parts) == Join(parts, <<"/">>)

\* A relative-path derivation that never rejects a path.
relative_to_any(path, base) ==
    [ok |-> TRUE,
     rel |-> IF StartsWith(path, base) THEN SubSeq(path, Len(base) + 1, Len(path))
             ELSE path]

\* Path.relative_to(LOCAL_DIR): the parts below LOCAL_DIR; raises ValueError
\* (ok = FALSE) when the path does not start with LOCAL_DIR's parts.
relative_to(path, base) ==
    IF StartsWith(path, base)
    THEN [ok |-> TRUE, rel |-> SubSeq(path, Len(base) + 1, Len(path))]
    ELSE [ok |-> FALSE, rel |-> <<>>]

\* LOCAL_DIR / local_file: the string is split into parts at "/".
LocalPath(rel) == LOCAL_DIR \o Split(rel, "/")

\* ------------------------------------------------------------ the universe
\* Relative paths (as parts) that the explored local and remote trees use.
DirA == << <<"a">> >>
DirAB == << <<"a">>, <<"b">> >>
FileF == << <<"f">> >>
FileH == << <<"a">>, <<"b">>, <<"h">> >>

DirC == << <<"c">> >>
FileK == << <<"c">>, <<"k">> >>
\* Directories named like the root folder ("H"), or with a name that begins
\* with it, and a file in each.
DirH == << <<"H">> >>
FileHF == << <<"H">>, <<"f">> >>
DirAH == << <<"a">>, <<"H">> >>
FileAHF == << <<"a">>, <<"H">>, <<"f">> >>
DirHx == << <<"H", "x">> >>
FileHxF == << <<"H", "x">>, <<"f">> >>
\* Files that appear while the program runs.
FileG == << <<"g">> >>
FileAN == << <<"a">>, <<"n">> >>

\* The directory sets of the explored trees (closed under parent).
DirSets == {{}, {DirA}, {DirA, DirAB}}

\* Remote trees for the remote scan: sibling directories, and directories
\* whose names repeat the root folder's name.
ScanDirSets == {{DirA, DirC}, {DirH}, {DirC, DirH}, {DirA, DirAH}, {DirHx}}

ScanFileMaps(ds) ==
    LET cand == {f \in {FileF, FileK, FileHF, FileAHF, FileHxF} :
                    Len(f) = 1 \/ SubSeq(f, 1, Len(f) - 1) \in ds}
    IN  UNION {[fs -> {1}] : fs \in SUBSET cand}

\* The file maps (relative parts -> mtime) that fit a directory set.
FileMaps(ds) ==
    LET cand == {FileF} \cup (IF DirAB \in ds THEN {FileH} ELSE {})
    IN  UNION {[fs -> Times] : fs \in SUBSET cand}

\* ------------------------------------------------------------------- state
VARIABLES
    pc,             \* position of the main thread
    pass,           \* which run of the program this is (1 = the first)
    passesDone,     \* calls of startup_sync that have returned, over all runs
    budget,         \* [faults, events, reruns, creates]: what the environment may do
    faults,         \* remote calls failed although their precondition held (all runs)
    events,         \* filesystem events dispatched (all runs)
    sig,            \* the single interrupt signal: "none", or where main was
                    \* (its pc) when the signal arrived
    fsDirs,         \* local filesystem: directories (absolute parts)
    fsFiles,        \* local filesystem: files (absolute parts) -> st_mtime
    created,        \* local files that appeared since the program started
    rdirs,          \* remote store: collections (absolute path strings)
    rfiles,         \* remote store: files (absolute path strings) -> mtime
    modifiedFmt,    \* how the store reports 'modified': "epoch" or "httpdate"
    mkdirExistsRaises, \* whether client.mkdir raises for an existing collection
    local_files, local_dirs, remote_files, remote_dirs, \* startup_sync's sets
    visited,        \* elements the current for loop has already taken
    cur,            \* local_file of the iteration whose client.info is in progress
    cnt,            \* deleted_count, deleted_dirs, created_dirs, uploaded_count
    calls,          \* remote calls of this run's startup phase, in order
    obs,            \* observer thread: "none", "running", "dead", "stopped", "joined"
    escaped,        \* an exception left a LocalHandler callback
    lastEv,         \* the event dispatched last (NoEvent before the first)
    evCalls,        \* remote calls issued by the handler of lastEv
    pending,        \* created files whose event waits in the observer's queue
    retval,         \* main's return value: <<>> until it returns, then <<v>>
    exitCode        \* the process exit code: <<>> while it runs, then <<c>>

vars == <<pc, pass, passesDone, budget, faults, events, sig, fsDirs, fsFiles, created,
          rdirs, rfiles, modifiedFmt, mkdirExistsRaises, local_files, local_dirs,
          remote_files, remote_dirs, visited, cur, cnt, calls, obs, escaped,
          lastEv, evCalls, pending, retval, exitCode>>

envVars == <<budget, modifiedFmt, mkdirExistsRaises, fsDirs, fsFiles, created>>
syncVars == <<local_files, local_dirs, remote_files, remote_dirs, visited, cur, cnt>>
watchVars == <<obs, escaped, lastEv, evCalls, events, pending>>

\* ------------------------------------------------------ the WebDAV store
\* The collection a remote path lies in ("" is the server root, which exists).
Parent(p) ==
    IF \A i \in 1..Len(p) : p[i] /= "/" THEN <<>>
    ELSE SubSeq(p, 1, (CHOOSE k \in 1..Len(p) :
                          p[k] = "/" /\ \A j \in (k + 1)..Len(p) : p[j] /= "/") - 1)

RIsDir(p) == p = <<>> \/ p \in rdirs

RExists(p) == RIsDir(p) \/ p \in DOMAIN rfiles

\* p lies strictly below the collection d.
Below(p, d) == StartsWith(p, d \o <<"/">>)

\* A remote call is [op, path, arg]; its outcome is [ok, dirs, files], the
\* store after it.  fault = TRUE: the call raises and changes nothing.
Raise == [ok |-> FALSE, dirs |-> rdirs, files |-> rfiles]

\* client.mkdir(path): the parent collection must exist.
Mkdir(p, fault) ==
    IF fault \/ ~RIsDir(Parent(p)) THEN Raise
    ELSE IF RExists(p)
         THEN [ok |-> ~mkdirExistsRaises, dirs |-> rdirs, files |-> rfiles]
         ELSE [ok |-> TRUE, dirs |-> rdirs \cup {p}, files |-> rfiles]

\* client.clean(path): removes the path and, for a collection, all below it.
Clean(p, fault) ==
    IF fault \/ p = <<>> \/ ~RExists(p) THEN Raise
    ELSE LET gone(q) == q = p \/ Below(q, p)
         IN  [ok |-> TRUE,
              dirs |-> {d \in rdirs : ~gone(d)},
              files |-> [q \in {x \in DOMAIN rfiles : ~gone(x)} |-> rfiles[q]]]

\* client.upload_sync(remote_path, local_path): the local file must exist, the
\* remote parent must exist, the target must not be a collection.
UploadSync(p, local, fault) ==
    IF fault \/ local \notin DOMAIN fsFiles \/ ~RIsDir(Parent(p)) \/ RIsDir(p)
    THEN Raise
    ELSE [ok |-> TRUE, dirs |-> rdirs,
          files |-> [q \in DOMAIN rfiles \cup {p} |->
                        IF q = p THEN UploadTime ELSE rfiles[q]]]

\* client.move(src, dst): src must exist, dst's parent must exist and dst must
\* not (Overwrite: F); the subtree at src is renamed.
Move(src, dst, fault) ==
    IF fault \/ src = <<>> \/ ~RExists(src) \/ ~RIsDir(Parent(dst)) \/ RExists(dst)
       \/ Below(dst, src)
    THEN Raise
    ELSE LET hit(q) == q = src \/ Below(q, src)
             to(q) == IF hit(q) THEN dst \o SubSeq(q, Len(src) + 1, Len(q)) ELSE q
             back(q) == CHOOSE x \in DOMAIN rfiles : to(x) = q
         IN  [ok |-> TRUE,
              dirs |-> {to(d) : d \in rdirs},
              files |-> [q \in {to(x) : x \in DOMAIN rfiles} |-> rfiles[back(q)]]]

\* client.info(path): "raise" for a missing path or a failed call, else the
\* property dictionary, of which only 'modified' is read (a collection
\* reports a time later than the trees' initial modification times).
Info(p, fault) ==
    IF fault \/ p = <<>> \/ ~RExists(p)
    THEN [res |-> "raise", fmt |-> "none", t |-> 0]
    ELSE [res |-> "info", fmt |-> modifiedFmt,
          t |-> IF p \in DOMAIN rfiles THEN rfiles[p] ELSE UploadTime]

\* client.list(path): the names of the members of the collection, those of
\* collections with a trailing "/".
List(p) ==
    {Last(Split(f, "/")) : f \in {x \in DOMAIN rfiles : Parent(x) = p}}
    \cup {Last(Split(d, "/")) \o <<"/">> : d \in {x \in rdirs : Parent(x) = p}}

\* ------------------------------------------------------------ call records
Call(op, path, arg) ==
    [op |-> op, path |-> path, arg |-> arg, res |-> "", fmt |-> "", t |-> 0]

StatCall(path, info) ==
    [op |-> "info", path |-> path, arg |-> <<>>,
     res |-> info.res, fmt |-> info.fmt, t |-> info.t]

NoEvent ==
    [kind |-> "none", is_directory |-> FALSE, src_path |-> <<>>, dest_path |-> <<>>]

ZeroCounts ==
    [deleted_count |-> 0, deleted_dirs |-> 0, created_dirs |-> 0, uploaded_count |-> 0]

\* A fault is injected only into a call that would otherwise succeed.
FaultChoices(wouldSucceed) ==
    IF wouldSucceed /\ faults < budget.faults THEN {FALSE, TRUE} ELSE {FALSE}

Charge(fault) == IF fault THEN faults + 1 ELSE faults

\* ------------------------------------------------------------------- Init
\* What the environment may do: fail remote calls, deliver filesystem
\* events, start the program again, create local files.  Four kinds of
\* exploration: one run with failing calls, repeated runs without failures,
\* a run on a synchronised tree that goes on to handle events, and a run
\* during which local files appear.
SyncBudget == [faults |-> MaxFaults, events |-> 0, reruns |-> 0, creates |-> 0]
RerunBudget == [faults |-> 0, events |-> 0, reruns |-> MaxReruns, creates |-> 0]
WatchBudget == [faults |-> MaxFaults, events |-> MaxEvents, reruns |-> 0, creates |-> 0]
CreateBudget == [faults |-> 0, events |-> 0, reruns |-> 0, creates |-> MaxCreates]

RemoteOf(rel) == REMOTE_DIR \o <<"/">> \o Str(rel)

InitTrees(lds, lfm, rds, rfm, root) ==
    /\ fsDirs = {LOCAL_DIR \o d : d \in lds}
    /\ fsFiles = [q \in {LOCAL_DIR \o f : f \in DOMAIN lfm} |->
                     lfm[SubSeq(q, Len(LOCAL_DIR) + 1, Len(q))]]
    /\ rdirs = IF root THEN {REMOTE_DIR} \cup {RemoteOf(d) : d \in rds} ELSE {}
    /\ rfiles = [q \in {RemoteOf(f) : f \in DOMAIN rfm} |->
                     rfm[CHOOSE f \in DOMAIN rfm : RemoteOf(f) = q]]

InitRun ==
    /\ pc = "init"
    /\ passesDone = 0
    /\ faults = 0
    /\ events = 0
    /\ sig = "none"
    /\ local_files = {}
    /\ local_dirs = {}
    /\ remote_files = {}
    /\ remote_dirs = {}
    /\ visited = {}
    /\ cur = <<>>
    /\ cnt = ZeroCounts
    /\ calls = <<>>
    /\ obs = "none"
    /\ escaped = FALSE
    /\ lastEv = NoEvent
    /\ evCalls = <<>>
    /\ pending = {}
    /\ created = {}
    /\ retval = <<>>
    /\ exitCode = <<>>

Init ==
    /\ InitRun
    /\ pass = 1
    /\ modifiedFmt \in {"epoch", "httpdate"}
    /\ mkdirExistsRaises \in BOOLEAN
    /\ \/ \E lds \in DirSets, rds \in DirSets :
            \E lfm \in FileMaps(lds), rfm \in FileMaps(rds) :
               \/ /\ InitTrees(lds, lfm, rds, rfm, TRUE)
                  /\ budget \in {SyncBudget, RerunBudget}
               \/ /\ rds = {}
                  /\ rfm = <<>>
                  /\ InitTrees(lds, lfm, rds, rfm, FALSE)
                  /\ budget = SyncBudget
               \/ /\ lds = {DirA}
                  /\ rds = {DirA}
                  /\ DOMAIN lfm = {FileF}
                  /\ rfm = lfm
                  /\ InitTrees(lds, lfm, rds, rfm, TRUE)
                  /\ \/ modifiedFmt = "httpdate" /\ budget = WatchBudget
                     \/ budget = CreateBudget
       \/ \E lds \in {{}, {DirA}}, rds \in ScanDirSets :
            \E rfm \in ScanFileMaps(rds) :
               /\ InitTrees(lds, <<>>, rds, rfm, TRUE)
               /\ budget = SyncBudget

\* ------------------------------------------------------------------- main
\* Lines 267-271: main's fatal-error handler.
Fatal ==
    /\ pc' = "returned"
    /\ retval' = <<1>>

\* Lines 231-235: load_config and create_webdav_client.
CreateClient ==
    /\ pc = "init"
    /\ \/ pc' = "mkLocal" /\ retval' = retval
       \/ Fatal
    /\ UNCHANGED <<pass, passesDone, faults, sig, rdirs, rfiles, calls, exitCode>>
    /\ UNCHANGED <<envVars, syncVars, watchVars>>

\* Line 237: LOCAL_DIR.mkdir(exist_ok=True).
EnsureLocalRoot ==
    /\ pc = "mkLocal"
    /\ \/ pc' = "mkRemote" /\ retval' = retval
       \/ Fatal
    /\ UNCHANGED <<pass, passesDone, faults, sig, rdirs, rfiles, calls, exitCode>>
    /\ UNCHANGED <<envVars, syncVars, watchVars>>

\* A main without the inner try of lines 240-245: a failing mkdir of the
\* remote root reaches the fatal-error handler.
EnsureRemoteRootFatal ==
    /\ pc = "mkRemote"
    /\ LET r == Mkdir(REMOTE_DIR, FALSE) IN
         /\ rdirs' = r.dirs
         /\ rfiles' = r.files
         /\ calls' = Append(calls, [Call("mkdirRoot", REMOTE_DIR, <<>>) EXCEPT
                                       !.res = IF r.ok THEN "ok" ELSE "raise"])
         /\ IF r.ok THEN pc' = "scanLocal" /\ retval' = retval ELSE Fatal
    /\ UNCHANGED <<pass, passesDone, sig, faults, exitCode>>
    /\ UNCHANGED <<envVars, syncVars, watchVars>>

\* Lines 239-245: client.mkdir(REMOTE_DIR); a failure is printed as a warning.
EnsureRemoteRoot ==
    /\ pc = "mkRemote"
    /\ \E fault \in FaultChoices(Mkdir(REMOTE_DIR, FALSE).ok) :
         LET r == Mkdir(REMOTE_DIR, fault) IN
         /\ rdirs' = r.dirs
         /\ rfiles' = r.files
         /\ faults' = Charge(fault)
         /\ calls' = Append(calls, [Call("mkdirRoot", REMOTE_DIR, <<>>) EXCEPT
                                       !.res = IF r.ok THEN "ok" ELSE "raise"])
    /\ pc' = "scanLocal"
    /\ UNCHANGED <<pass, passesDone, sig, retval, exitCode>>
    /\ UNCHANGED <<envVars, syncVars, watchVars>>

\* ----------------------------------------------------------- startup_sync
\* Lines 106-111: the relative path string of a local entry.
LocalRel(path) ==
    Replace(Str(relative_to(path, LOCAL_DIR).rel), <<"\\">>, <<"/">>)

\* Lines 100-113: os.walk(LOCAL_DIR) fills local_files and local_dirs.
ScanLocal ==
    /\ pc = "scanLocal"
    /\ local_files' = {LocalRel(q) : q \in DOMAIN fsFiles}
    /\ local_dirs' = {LocalRel(q) : q \in fsDirs}
    /\ pc' = "scanRemote"
    /\ UNCHANGED <<pass, passesDone, faults, sig, rdirs, rfiles, calls, retval, exitCode>>
    /\ UNCHANGED <<remote_files, remote_dirs, visited, cur, cnt>>
    /\ UNCHANGED <<envVars, watchVars>>

\* Lines 120-143: list_remote_recursive(path); client.list raises for the
\* paths in bad and for a missing path, which line 142 catches.  listed is
\* the set of paths client.list was called on.
list_remote_recursive(path, bad) ==
    LET L[p \in rdirs \cup {path}] ==
            IF p \in bad \/ p \notin rdirs
            THEN [files |-> {}, dirs |-> {}, listed |-> {p}]
            ELSE LET items == List(p)
                     rel_path == LStrip(Replace(p, REMOTE_DIR, <<>>), "/")
                     under(name) ==
                         IF rel_path /= <<>> THEN rel_path \o <<"/">> \o name ELSE name
                     dir_name(i) == Last(Split(RStrip(i, "/"), "/"))
                     dirItems == {i \in items : EndsWith(i, "/") /\ dir_name(i) /= <<>>}
                     fileItems == {i \in items : ~EndsWith(i, "/")}
                     subs == {L[p \o <<"/">> \o dir_name(i)] : i \in dirItems}
                 IN  [files |-> {under(i) : i \in fileItems}
                                   \cup UNION {r.files : r \in subs},
                      dirs |-> {under(dir_name(i)) : i \in dirItems}
                                   \cup UNION {r.dirs : r \in subs},
                      listed |-> {p} \cup UNION {r.listed : r \in subs}]
    IN  L[path]

\* The sets of collections whose listing may fail in one scan: each is
\* reached by the scan (no collection above it fails too).
BadLists ==
    {bad \in SUBSET rdirs :
        /\ Cardinality(bad) <= budget.faults - faults
        /\ \A b \in bad : b = REMOTE_DIR \/ Below(b, REMOTE_DIR)
        /\ \A b \in bad : \A c \in bad : ~Below(b, c)}

\* The orders in which the scan can have listed the paths of S: a collection
\* is listed before the collections below it (line 134 follows line 122).
ListOrders(S) ==
    {o \in [1..Cardinality(S) -> S] :
        /\ \A i, j \in DOMAIN o : i /= j => o[i] /= o[j]
        /\ \A i, j \in DOMAIN o : i < j => ~Below(o[i], o[j])}

\* The record of one client.list call of the scan.
ListCall(p, bad) ==
    [Call("list", p, <<>>) EXCEPT
        !.res = IF p \in bad \/ p \notin rdirs THEN "raise" ELSE "ok"]

\* A remote scan in which a failing client.list is caught only by the outer
\* try (line 148) and the inventory built so far is dropped.
ScanRemoteAborting ==
    /\ pc = "scanRemote"
    /\ \E bad \in BadLists :
         \E r \in {list_remote_recursive(REMOTE_DIR, bad)} :
         /\ remote_files' = IF bad = {} THEN r.files ELSE {}
         /\ remote_dirs' = IF bad = {} THEN r.dirs ELSE {}
         /\ faults' = faults + Cardinality(bad)
         /\ \E o \in ListOrders(r.listed) :
               calls' = calls \o [i \in DOMAIN o |-> ListCall(o[i], bad)]
    /\ pc' = "delFiles"
    /\ UNCHANGED <<pass, passesDone, sig, rdirs, rfiles, retval, exitCode>>
    /\ UNCHANGED <<local_files, local_dirs, visited, cur, cnt>>
    /\ UNCHANGED <<envVars, watchVars>>

\* Lines 115-150: the remote scan.
ScanRemote ==
    /\ pc = "scanRemote"
    /\ \E bad \in BadLists :
         \E r \in {list_remote_recursive(REMOTE_DIR, bad)} :
         /\ remote_files' = r.files
         /\ remote_dirs' = r.dirs
         /\ faults' = faults + Cardinality(bad)
         /\ \E o \in ListOrders(r.listed) :
               calls' = calls \o [i \in DOMAIN o |-> ListCall(o[i], bad)]
    /\ pc' = "delFiles"
    /\ UNCHANGED <<pass, passesDone, sig, rdirs, rfiles, retval, exitCode>>
    /\ UNCHANGED <<local_files, local_dirs, visited, cur, cnt>>
    /\ UNCHANGED <<envVars, watchVars>>

\* A delete loop that has lost its membership test.
StaleFileAlways(remote_file) == TRUE

\* Line 155: the test that selects a remote file for deletion.
StaleFile(remote_file) == remote_file \notin local_files

\* One delete loop that takes remote files and remote directories as they come.
DeleteRemoteFileMixed ==
    /\ pc = "delFiles"
    /\ \/ \E x \in (remote_files \cup remote_dirs) \ visited :
            LET remote_path == REMOTE_DIR \o <<"/">> \o x
                r == Clean(remote_path, FALSE)
            IN  /\ visited' = visited \cup {x}
                /\ rdirs' = r.dirs
                /\ rfiles' = r.files
                /\ calls' = Append(calls,
                       Call(IF x \in remote_files THEN "cleanFile" ELSE "cleanDir",
                            remote_path, <<>>))
                /\ pc' = pc
       \/ /\ (remote_files \cup remote_dirs) \subseteq visited
          /\ visited' = remote_dirs
          /\ pc' = "delDirs"
          /\ UNCHANGED <<rdirs, rfiles, calls>>
    /\ UNCHANGED <<pass, passesDone, sig, retval, exitCode, faults, cnt>>
    /\ UNCHANGED <<local_files, local_dirs, remote_files, remote_dirs, cur>>
    /\ UNCHANGED <<envVars, watchVars>>

\* Lines 152-164: one iteration of the file-delete loop, or its end.
DeleteRemoteFile ==
    /\ pc = "delFiles"
    /\ \/ \E remote_file \in remote_files \ visited :
            LET remote_path == REMOTE_DIR \o <<"/">> \o remote_file IN
            /\ visited' = visited \cup {remote_file}
            /\ IF StaleFile(remote_file)
               THEN \E fault \in FaultChoices(Clean(remote_path, FALSE).ok) :
                       LET r == Clean(remote_path, fault) IN
                       /\ rdirs' = r.dirs
                       /\ rfiles' = r.files
                       /\ faults' = Charge(fault)
                       /\ calls' = Append(calls, Call("cleanFile", remote_path, <<>>))
                       /\ cnt' = IF r.ok
                                 THEN [cnt EXCEPT !.deleted_count = @ + 1]
                                 ELSE cnt
               ELSE UNCHANGED <<rdirs, rfiles, faults, calls, cnt>>
            /\ pc' = pc
       \/ /\ remote_files \subseteq visited
          /\ visited' = {}
          /\ pc' = "delDirs"
          /\ UNCHANGED <<rdirs, rfiles, faults, calls, cnt>>
    /\ UNCHANGED <<pass, passesDone, sig, retval, exitCode>>
    /\ UNCHANGED <<local_files, local_dirs, remote_files, remote_dirs, cur>>
    /\ UNCHANGED <<envVars, watchVars>>

\* A directory-delete loop over the set as it comes, without the sort.
NextRemoteDirsAny == remote_dirs \ visited

\* Line 168: sorted(remote_dirs, key=len, reverse=True): the directories
\* that may come next are the longest ones not yet taken.
NextRemoteDirs ==
    {d \in remote_dirs \ visited : \A e \in remote_dirs \ visited : Len(e) <= Len(d)}

\* Line 169: the test that selects a remote directory for deletion.
StaleDir(remote_dir) == remote_dir \notin local_dirs

\* Lines 166-178: one iteration of the directory-delete loop, or its end.
DeleteRemoteDir ==
    /\ pc = "delDirs"
    /\ \/ \E remote_dir \in NextRemoteDirs :
            LET remote_path == REMOTE_DIR \o <<"/">> \o remote_dir IN
            /\ visited' = visited \cup {remote_dir}
            /\ IF StaleDir(remote_dir)
               THEN \E fault \in FaultChoices(Clean(remote_path, FALSE).ok) :
                       LET r == Clean(remote_path, fault) IN
                       /\ rdirs' = r.dirs
                       /\ rfiles' = r.files
                       /\ faults' = Charge(fault)
                       /\ calls' = Append(calls, Call("cleanDir", remote_path, <<>>))
                       /\ cnt' = IF r.ok
                                 THEN [cnt EXCEPT !.deleted_dirs = @ + 1]
                                 ELSE cnt
               ELSE UNCHANGED <<rdirs, rfiles, faults, calls, cnt>>
            /\ pc' = pc
       \/ /\ remote_dirs \subseteq visited
          /\ visited' = {}
          /\ pc' = "mkdirs"
          /\ UNCHANGED <<rdirs, rfiles, faults, calls, cnt>>
    /\ UNCHANGED <<pass, passesDone, sig, retval, exitCode>>
    /\ UNCHANGED <<local_files, local_dirs, remote_files, remote_dirs, cur>>
    /\ UNCHANGED <<envVars, watchVars>>

\* Line 182: the directories the create loop may take next (set order).
NextLocalDirs == local_dirs \ visited

\* A directory-create loop with the try around the loop instead of inside
\* it: the first failing mkdir ends the loop.
CreateRemoteDirAborting ==
    /\ pc = "mkdirs"
    /\ \/ \E local_dir \in NextLocalDirs :
            LET remote_path == REMOTE_DIR \o <<"/">> \o local_dir
                r == Mkdir(remote_path, FALSE)
            IN  /\ visited' = IF r.ok THEN visited \cup {local_dir} ELSE {}
                /\ rdirs' = r.dirs
                /\ rfiles' = r.files
                /\ cnt' = IF r.ok THEN [cnt EXCEPT !.created_dirs = @ + 1] ELSE cnt
                /\ calls' = Append(calls, Call("mkdir", remote_path, <<>>))
                /\ pc' = IF r.ok THEN pc ELSE "uploads"
       \/ /\ local_dirs \subseteq visited
          /\ visited' = {}
          /\ pc' = "uploads"
          /\ UNCHANGED <<rdirs, rfiles, calls, cnt>>
    /\ UNCHANGED <<pass, passesDone, sig, retval, exitCode, faults>>
    /\ UNCHANGED <<local_files, local_dirs, remote_files, remote_dirs, cur>>
    /\ UNCHANGED <<envVars, watchVars>>

\* Lines 180-191: one iteration of the directory-create loop, or its end.
CreateRemoteDir ==
    /\ pc = "mkdirs"
    /\ \/ \E local_dir \in NextLocalDirs :
            LET remote_path == REMOTE_DIR \o <<"/">> \o local_dir IN
            /\ visited' = visited \cup {local_dir}
            /\ \E fault \in FaultChoices(Mkdir(remote_path, FALSE).ok) :
                  LET r == Mkdir(remote_path, fault) IN
                  /\ rdirs' = r.dirs
                  /\ rfiles' = r.files
                  /\ faults' = Charge(fault)
                  /\ cnt' = IF r.ok THEN [cnt EXCEPT !.created_dirs = @ + 1] ELSE cnt
            /\ calls' = Append(calls, Call("mkdir", remote_path, <<>>))
            /\ pc' = pc
       \/ /\ local_dirs \subseteq visited
          /\ visited' = {}
          /\ pc' = "uploads"
          /\ UNCHANGED <<rdirs, rfiles, faults, calls, cnt>>
    /\ UNCHANGED <<pass, passesDone, sig, retval, exitCode>>
    /\ UNCHANGED <<local_files, local_dirs, remote_files, remote_dirs, cur>>
    /\ UNCHANGED <<envVars, watchVars>>

\* Line 207: float(remote_info.get('modified', 0)): a number for a numeric
\* value, ValueError (ok = FALSE) for an HTTP date such as
\* "Mon, 01 Jan 2024 00:00:00 GMT".
float(info) ==
    IF info.fmt = "epoch" THEN [ok |-> TRUE, v |-> info.t] ELSE [ok |-> FALSE, v |-> 0]

\* Lines 201-212: should_upload after the stat; info.res is "info" (a
\* dictionary came back), "raise" (client.info raised) or "interrupt"
\* (KeyboardInterrupt inside the try); the bare except catches all of them.
should_upload(local_file, info) ==
    IF info.res /= "info" THEN TRUE
    ELSE IF LocalPath(local_file) \notin DOMAIN fsFiles THEN TRUE
    ELSE LET remote_mtime == float(info) IN
         IF ~remote_mtime.ok THEN TRUE
         ELSE ~(fsFiles[LocalPath(local_file)] <= remote_mtime.v)

\* startup_sync's local variables end with the call (and with the process).
Forget ==
    /\ local_files' = {}
    /\ local_dirs' = {}
    /\ remote_files' = {}
    /\ remote_dirs' = {}
    /\ visited' = {}
    /\ cur' = <<>>
    /\ cnt' = ZeroCounts
    /\ calls' = <<>>

\* Lines 195-203: the upload loop takes the next local file and calls
\* client.info; at the end of the loop startup_sync returns (lines 224-226).
BeginStat ==
    /\ pc = "uploads"
    /\ \/ \E local_file \in local_files \ visited :
            /\ visited' = visited \cup {local_file}
            /\ cur' = local_file
            /\ pc' = "inStat"
            /\ UNCHANGED <<local_files, local_dirs, remote_files, remote_dirs, cnt, calls>>
            /\ UNCHANGED passesDone
       \/ /\ local_files \subseteq visited
          /\ Forget
          /\ passesDone' = passesDone + 1
          /\ pc' = "startObs"
    /\ UNCHANGED <<pass, faults, sig, rdirs, rfiles, retval, exitCode>>
    /\ UNCHANGED <<envVars, watchVars>>

\* Lines 204-222: the rest of the iteration once the stat has ended with info.
AfterStat(info, statFault) ==
    LET remote_path == REMOTE_DIR \o <<"/">> \o cur
        local_path == LocalPath(cur)
        logged == Append(calls, StatCall(remote_path, info))
    IN  /\ IF should_upload(cur, info)
           THEN \E fault \in IF /\ UploadSync(remote_path, local_path, FALSE).ok
                                  /\ Charge(statFault) < budget.faults
                               THEN {FALSE, TRUE} ELSE {FALSE} :
                   LET r == UploadSync(remote_path, local_path, fault) IN
                   /\ rdirs' = r.dirs
                   /\ rfiles' = r.files
                   /\ faults' = Charge(statFault) + (IF fault THEN 1 ELSE 0)
                   /\ calls' = Append(logged, Call("upload_sync", remote_path, local_path))
                   /\ cnt' = IF r.ok
                             THEN [cnt EXCEPT !.uploaded_count = @ + 1]
                             ELSE cnt
           ELSE /\ calls' = logged
                /\ faults' = Charge(statFault)
                /\ UNCHANGED <<rdirs, rfiles, cnt>>
        /\ cur' = <<>>
        /\ pc' = "uploads"
        /\ UNCHANGED <<pass, passesDone, retval, exitCode>>
        /\ UNCHANGED <<local_files, local_dirs, remote_files, remote_dirs, visited>>
        /\ UNCHANGED <<envVars, watchVars>>

\* Lines 203-222: client.info returns or raises.
FinishStat ==
    /\ pc = "inStat"
    /\ \E fault \in FaultChoices(Info(REMOTE_DIR \o <<"/">> \o cur, FALSE).res = "info") :
          AfterStat(Info(REMOTE_DIR \o <<"/">> \o cur, fault), fault)
    /\ sig' = sig

\* ---------------------------------------------------------- LocalHandler
\* A handler's outcome: the remote call it makes (at most one) and whether
\* an exception leaves the callback.
None == [calls |-> <<>>, escapes |-> FALSE]
Issue(call) == [calls |-> <<call>>, escapes |-> FALSE]
Escape == [calls |-> <<>>, escapes |-> TRUE]

\* Lines 84-93: LocalHandler.upload; every exception is caught at line 91.
upload(path) ==
    LET r == relative_to(path, LOCAL_DIR) IN
    IF ~r.ok THEN None
    ELSE LET rel == Replace(Str(r.rel), <<"\\">>, <<"/">>)
             remote_path == REMOTE_DIR \o <<"/">> \o rel
         IN  Issue(Call("upload_sync", remote_path, path))

\* A modification handler without the directory test.
on_modified_any(event) == upload(event.src_path)

\* Lines 40-45.
on_modified(event) ==
    IF ~event.is_directory THEN upload(event.src_path) ELSE None

\* A move handler that passes its two paths in the wrong order.
on_moved_swapped(event) ==
    LET rs == relative_to(event.src_path, LOCAL_DIR)
        rd == relative_to(event.dest_path, LOCAL_DIR)
    IN  IF ~rs.ok THEN Escape
        ELSE IF ~rd.ok THEN None
        ELSE Issue(Call("move", REMOTE_DIR \o <<"/">> \o Str(rd.rel),
                                REMOTE_DIR \o <<"/">> \o Str(rs.rel)))

\* Lines 47-57: the except clause formats remote_path_source, which is
\* unbound when relative_to failed on src_path: UnboundLocalError leaves.
on_moved(event) ==
    LET rs == relative_to(event.src_path, LOCAL_DIR) IN
    IF ~rs.ok THEN Escape
    ELSE LET remote_path_source ==
                 Replace(REMOTE_DIR \o <<"/">> \o Str(rs.rel), <<"\\">>, <<"/">>)
             rd == relative_to(event.dest_path, LOCAL_DIR)
         IN  IF ~rd.ok THEN None
             ELSE LET remote_path_dest ==
                          Replace(REMOTE_DIR \o <<"/">> \o Str(rd.rel), <<"\\">>, <<"/">>)
                  IN  Issue(Call("move", remote_path_source, remote_path_dest))

\* Lines 59-72.
on_created(event) ==
    IF ~event.is_directory THEN upload(event.src_path)
    ELSE LET r == relative_to(event.src_path, LOCAL_DIR) IN
         IF ~r.ok THEN None
         ELSE Issue(Call("mkdir",
                  Replace(REMOTE_DIR \o <<"/">> \o Str(r.rel), <<"\\">>, <<"/">>), <<>>))

\* Lines 74-82: nothing is done for a directory.
on_deleted(event) ==
    IF ~event.is_directory
    THEN LET r == relative_to(event.src_path, LOCAL_DIR) IN
         IF ~r.ok THEN None
         ELSE Issue(Call("clean",
                  Replace(REMOTE_DIR \o <<"/">> \o Str(r.rel), <<"\\">>, <<"/">>), <<>>))
    ELSE None

\* FileSystemEventHandler.dispatch: the callback for the event's kind.
Handle(event) ==
    CASE event.kind = "created" -> on_created(event)
      [] event.kind = "modified" -> on_modified(event)
      [] event.kind = "deleted" -> on_deleted(event)
      [] event.kind = "moved" -> on_moved(event)

\* The store after a handler's remote call.
Perform(call, fault) ==
    CASE call.op = "upload_sync" -> UploadSync(call.path, call.arg, fault)
      [] call.op = "mkdir" -> Mkdir(call.path, fault)
      [] call.op = "clean" -> Clean(call.path, fault)
      [] call.op = "move" -> Move(call.path, call.arg, fault)

\* A path outside the watched root, and the paths events carry.
Outside == << <<"w">>, <<"x">> >>
EventPaths == {LOCAL_DIR \o FileF, LOCAL_DIR \o << <<"g">> >>, Outside}

Events ==
    {[kind |-> k, is_directory |-> d, src_path |-> s, dest_path |-> <<>>] :
        k \in {"created", "modified", "deleted"}, d \in BOOLEAN, s \in EventPaths}
    \cup {[kind |-> "moved", is_directory |-> d, src_path |-> s, dest_path |-> t] :
        d \in BOOLEAN, s \in EventPaths, t \in EventPaths}

\* The observer thread takes an event from its queue and runs the handler;
\* an exception that leaves the handler ends the thread's dispatch loop.
Dispatch ==
    /\ obs = "running"
    /\ events < budget.events
    /\ \E event \in Events :
         LET h == Handle(event) IN
         /\ lastEv' = event
         /\ evCalls' = h.calls
         /\ escaped' = (escaped \/ h.escapes)
         /\ obs' = IF h.escapes THEN "dead" ELSE obs
         /\ IF h.calls = <<>>
            THEN UNCHANGED <<rdirs, rfiles, faults>>
            ELSE \E fault \in FaultChoices(Perform(h.calls[1], FALSE).ok) :
                    LET r == Perform(h.calls[1], fault) IN
                    /\ rdirs' = r.dirs
                    /\ rfiles' = r.files
                    /\ faults' = Charge(fault)
    /\ events' = events + 1
    /\ UNCHANGED <<pc, pass, passesDone, sig, calls, pending, retval, exitCode>>
    /\ UNCHANGED <<envVars, syncVars>>

\* A file appears in the local tree.  A running observer queues its Created
\* event; before obs.start() (line 254) nothing watches the tree.
NewFiles == {LOCAL_DIR \o FileG, LOCAL_DIR \o FileAN}

LocalCreate ==
    /\ pc /= "exited"
    /\ Cardinality(created) < budget.creates
    /\ \E path \in NewFiles, t \in Times :
         /\ path \notin DOMAIN fsFiles
         /\ SubSeq(path, 1, Len(path) - 1) \in fsDirs \cup {LOCAL_DIR}
         /\ fsFiles' = [q \in DOMAIN fsFiles \cup {path} |->
                            IF q = path THEN t ELSE fsFiles[q]]
         /\ created' = created \cup {path}
         /\ pending' = IF obs = "running" THEN pending \cup {path} ELSE pending
    /\ UNCHANGED <<pc, pass, passesDone, faults, sig, rdirs, rfiles, calls, retval, exitCode>>
    /\ UNCHANGED <<budget, modifiedFmt, mkdirExistsRaises, fsDirs>>
    /\ UNCHANGED <<obs, escaped, lastEv, evCalls, events>>
    /\ UNCHANGED syncVars

\* The observer thread takes a queued Created event and runs on_created.
DeliverCreated ==
    /\ obs = "running"
    /\ \E path \in pending :
         LET event == [kind |-> "created", is_directory |-> FALSE,
                       src_path |-> path, dest_path |-> <<>>]
             h == Handle(event)
         IN  /\ pending' = pending \ {path}
             /\ lastEv' = event
             /\ evCalls' = h.calls
             /\ IF h.calls = <<>>
                THEN UNCHANGED <<rdirs, rfiles, faults>>
                ELSE \E fault \in FaultChoices(Perform(h.calls[1], FALSE).ok) :
                        LET r == Perform(h.calls[1], fault) IN
                        /\ rdirs' = r.dirs
                        /\ rfiles' = r.files
                        /\ faults' = Charge(fault)
    /\ UNCHANGED <<pc, pass, passesDone, sig, calls, retval, exitCode>>
    /\ UNCHANGED <<obs, escaped, events>>
    /\ UNCHANGED <<envVars, syncVars>>

\* ------------------------------------------------- main: watch and exit
\* A main that starts the observer before it calls startup_sync.
StartObserverEarly ==
    /\ \/ pc = "scanLocal" /\ obs = "none" /\ pc' = pc
       \/ pc = "startObs" /\ pc' = "obsStarted"
    /\ obs' = "running"
    /\ UNCHANGED <<pass, passesDone, faults, sig, rdirs, rfiles, calls, retval, exitCode>>
    /\ UNCHANGED <<escaped, lastEv, evCalls, events, pending>>
    /\ UNCHANGED <<envVars, syncVars>>

\* Lines 250-254: the observer is created, scheduled and started.
StartObserver ==
    /\ pc = "startObs"
    /\ obs' = "running"
    /\ pc' = "obsStarted"
    /\ UNCHANGED <<pass, passesDone, faults, sig, rdirs, rfiles, calls, retval, exitCode>>
    /\ UNCHANGED <<escaped, lastEv, evCalls, events, pending>>
    /\ UNCHANGED <<envVars, syncVars>>

\* Lines 256-259: main enters the try block and sleeps.
EnterWait ==
    /\ pc = "obsStarted"
    /\ pc' = "idle"
    /\ UNCHANGED <<pass, passesDone, faults, sig, rdirs, rfiles, calls, retval, exitCode>>
    /\ UNCHANGED <<envVars, syncVars, watchVars>>

\* Exit status of an interpreter ended by an uncaught KeyboardInterrupt (it
\* prints the traceback and re-raises SIGINT on itself): 128 + SIGINT.
ExitSigint == 130

\* Where a KeyboardInterrupt raised in the main thread is caught by no
\* handler: 'except Exception' (lines 142, 148, 161, 175, 187, 221, 243, 267)
\* does not catch it, and lines 230-256 lie outside the try of line 257.
Unprotected ==
    {"init", "mkLocal", "mkRemote", "scanLocal", "scanRemote", "delFiles",
     "delDirs", "mkdirs", "uploads", "startObs", "obsStarted"}

\* The interrupt signal arrives (once): KeyboardInterrupt in the main thread.
Interrupt ==
    /\ sig = "none"
    /\ sig' = pc
    /\ \/ /\ pc \in Unprotected
          /\ pc' = "exited"
          /\ exitCode' = <<ExitSigint>>
          /\ Forget
          /\ obs' = IF obs = "running" THEN "dead" ELSE obs
          /\ UNCHANGED <<pass, passesDone, faults, rdirs, rfiles, retval>>
          /\ UNCHANGED <<escaped, lastEv, evCalls, events, pending>>
          /\ UNCHANGED envVars
       \/ /\ pc = "inStat"
          /\ AfterStat([res |-> "interrupt", fmt |-> "none", t |-> 0], FALSE)
       \/ /\ pc = "idle"
          /\ pc' = "stopping"
          /\ UNCHANGED <<pass, passesDone, faults, rdirs, rfiles, calls, retval, exitCode>>
          /\ UNCHANGED <<envVars, syncVars, watchVars>>

\* Lines 260-262: except KeyboardInterrupt: obs.stop().
StopObserver ==
    /\ pc = "stopping"
    /\ obs' = IF obs = "running" THEN "stopped" ELSE obs
    /\ pc' = "joining"
    /\ UNCHANGED <<pass, passesDone, faults, sig, rdirs, rfiles, calls, retval, exitCode>>
    /\ UNCHANGED <<escaped, lastEv, evCalls, events, pending>>
    /\ UNCHANGED <<envVars, syncVars>>

\* Lines 263-265 and 273: finally obs.join(), then return 0.
JoinObserver ==
    /\ pc = "joining"
    /\ obs' = "joined"
    /\ pc' = "returned"
    /\ retval' = <<0>>
    /\ UNCHANGED <<pass, passesDone, faults, sig, rdirs, rfiles, calls, exitCode>>
    /\ UNCHANGED <<escaped, lastEv, evCalls, events, pending>>
    /\ UNCHANGED <<envVars, syncVars>>

\* Lines 275-276: main() is called and its value dropped, so the
\* interpreter ends with status 0 whenever main returns.
ProcessExit ==
    /\ pc = "returned"
    /\ exitCode' = <<0>>
    /\ pc' = "exited"
    /\ UNCHANGED <<pass, passesDone, faults, sig, rdirs, rfiles, calls, retval>>
    /\ UNCHANGED <<envVars, syncVars, watchVars>>

\* The program is started again: a new process on the same two trees.
Rerun ==
    /\ pc = "exited"
    /\ pass <= budget.reruns
    /\ pass' = pass + 1
    /\ pc' = "init"
    /\ sig' = "none"
    /\ local_files' = {}
    /\ local_dirs' = {}
    /\ remote_files' = {}
    /\ remote_dirs' = {}
    /\ visited' = {}
    /\ cur' = <<>>
    /\ cnt' = ZeroCounts
    /\ calls' = <<>>
    /\ obs' = "none"
    /\ escaped' = FALSE
    /\ lastEv' = NoEvent
    /\ evCalls' = <<>>
    /\ pending' = {}
    /\ retval' = <<>>
    /\ exitCode' = <<>>
    /\ UNCHANGED <<passesDone, faults, events, rdirs, rfiles>>
    /\ UNCHANGED envVars

Next ==
    \/ CreateClient
    \/ EnsureLocalRoot
    \/ EnsureRemoteRoot
    \/ ScanLocal
    \/ ScanRemote
    \/ DeleteRemoteFile
    \/ DeleteRemoteDir
    \/ CreateRemoteDir
    \/ BeginStat
    \/ FinishStat
    \/ StartObserver
    \/ EnterWait
    \/ Dispatch
    \/ LocalCreate
    \/ DeliverCreated
    \/ Interrupt
    \/ StopObserver
    \/ JoinObserver
    \/ ProcessExit
    \/ Rerun

Spec == Init /\ [][Next]_vars

\* The main thread's own steps: the interpreter keeps running them.  The
\* signal, the filesystem events and a new start are the environment's.
MainStep ==
    \/ CreateClient
    \/ EnsureLocalRoot
    \/ EnsureRemoteRoot
    \/ ScanLocal
    \/ ScanRemote
    \/ DeleteRemoteFile
    \/ DeleteRemoteDir
    \/ CreateRemoteDir
    \/ BeginStat
    \/ FinishStat
    \/ StartObserver
    \/ EnterWait
    \/ StopObserver
    \/ JoinObserver
    \/ ProcessExit

\* One run of the program: the main thread, the events and the signal.
NextOnce ==
    \/ MainStep
    \/ Dispatch
    \/ LocalCreate
    \/ DeliverCreated
    \/ Interrupt

FairSpec == Init /\ [][NextOnce]_vars /\ WF_vars(MainStep)

\* ================================================================ claims
\* The two trees as sets of relative path strings.
LocalFileSet == {Str(relative_to(q, LOCAL_DIR).rel) : q \in DOMAIN fsFiles}
LocalDirSet == {Str(relative_to(q, LOCAL_DIR).rel) : q \in fsDirs}
RelOfRemote(q) == SubSeq(q, Len(REMOTE_DIR) + 2, Len(q))
RemoteFileSet == {RelOfRemote(q) : q \in {x \in DOMAIN rfiles : Below(x, REMOTE_DIR)}}
RemoteDirSet == {RelOfRemote(q) : q \in {x \in rdirs : Below(x, REMOTE_DIR)}}

\* toRemote of the path mapper, on a relative path string.
ToRemote(rel) == REMOTE_DIR \o <<"/">> \o rel

\* How often startup_sync has issued the call op on path.
Count(op, path) ==
    Cardinality({i \in DOMAIN calls : calls[i].op = op /\ calls[i].path = path})

Issued(op) == {calls[i].path : i \in {j \in DOMAIN calls : calls[j].op = op}}

\* startup_sync is about to return: its last loop has taken every element.
PassEnds == pc = "uploads" /\ local_files \subseteq visited

\* C1: when startup_sync returns after a pass in which no remote call failed
\* while its WebDAV precondition held, the remote files under the remote root
\* are exactly the local files and the remote directories exactly the local
\* directories, for every iteration order of the sets.
C1_Converges ==
    (pc = "startObs" /\ faults = 0 /\ ~mkdirExistsRaises)
        => (RemoteFileSet = LocalFileSet /\ RemoteDirSet = LocalDirSet)

\* C2: startup_sync issues a delete for exactly the scanned remote files that
\* are not local files and for exactly the scanned remote directories that are
\* not local directories, and a mkdir attempt for exactly the local
\* directories, each exactly once, whichever calls fail; it never deletes a
\* path that the local inventory holds with the same kind.
C2_ExactPlan ==
    /\ \A p \in Issued("cleanFile") :
          /\ \E f \in remote_files \ local_files : p = ToRemote(f)
          /\ Count("cleanFile", p) = 1
    /\ \A p \in Issued("cleanDir") :
          /\ \E d \in remote_dirs \ local_dirs : p = ToRemote(d)
          /\ Count("cleanDir", p) = 1
    /\ \A p \in Issued("mkdir") :
          /\ \E d \in local_dirs : p = ToRemote(d)
          /\ Count("mkdir", p) = 1
    /\ pc \in {"delDirs", "mkdirs", "uploads", "inStat"}
          => \A f \in remote_files \ local_files : Count("cleanFile", ToRemote(f)) = 1
    /\ pc \in {"mkdirs", "uploads", "inStat"}
          => \A d \in remote_dirs \ local_dirs : Count("cleanDir", ToRemote(d)) = 1
    /\ pc \in {"uploads", "inStat"}
          => \A d \in local_dirs : Count("mkdir", ToRemote(d)) = 1

\* C2's case: all three phases are over, each has issued a call, one failed.
C2_Witness ==
    /\ pc = "uploads"
    /\ faults > 0
    /\ Issued("cleanFile") /= {}
    /\ Issued("cleanDir") /= {}
    /\ Issued("mkdir") /= {}

\* The relative path string of an event path under the local root.
UnderRoot(path) == relative_to(path, LOCAL_DIR).ok
RelOf(path) == Str(relative_to(path, LOCAL_DIR).rel)

\* C3: no LocalHandler callback lets an exception escape to the dispatch
\* loop of the observer, whatever the event and whatever fails.
C3_NoEscape == ~escaped

\* C4: a Deleted event for a path under the local root is translated into
\* exactly one remote delete of toRemote(path), for a file and for a directory.
C4_DeletedDeletes ==
    (lastEv.kind = "deleted" /\ UnderRoot(lastEv.src_path))
        => evCalls = <<Call("clean", ToRemote(RelOf(lastEv.src_path)), <<>>)>>

\* C5 as stated: a Created file event and every Modified event (file or
\* directory) under the local root yield exactly one upload of the local
\* path to toRemote(path); a Created directory event yields exactly one mkdir.
C5_UploadOnCreateModify ==
    UnderRoot(lastEv.src_path) =>
        /\ (lastEv.kind = "modified" \/ (lastEv.kind = "created" /\ ~lastEv.is_directory))
              => evCalls = <<Call("upload_sync", ToRemote(RelOf(lastEv.src_path)),
                                  lastEv.src_path)>>
        /\ (lastEv.kind = "created" /\ lastEv.is_directory)
              => evCalls = <<Call("mkdir", ToRemote(RelOf(lastEv.src_path)), <<>>)>>

\* C5 as amended: a Created or Modified event with isDirectory = false under
\* the local root yields exactly one upload of the local path to
\* toRemote(path), the same for both kinds; a Created directory event yields
\* exactly one mkdir and no upload; a Modified directory event yields no
\* remote operation.
C5_UploadOnFileCreateModify ==
    UnderRoot(lastEv.src_path) =>
        /\ (lastEv.kind \in {"created", "modified"} /\ ~lastEv.is_directory)
              => evCalls = <<Call("upload_sync", ToRemote(RelOf(lastEv.src_path)),
                                  lastEv.src_path)>>
        /\ (lastEv.kind = "created" /\ lastEv.is_directory)
              => evCalls = <<Call("mkdir", ToRemote(RelOf(lastEv.src_path)), <<>>)>>
        /\ (lastEv.kind = "modified" /\ lastEv.is_directory) => evCalls = <<>>

\* C5's case: a file under the root was modified and its upload was issued.
C5_Witness ==
    /\ lastEv.kind = "modified"
    /\ ~lastEv.is_directory
    /\ UnderRoot(lastEv.src_path)
    /\ Len(evCalls) = 1
    /\ evCalls[1].op = "upload_sync"

\* C6: a Moved event whose source and destination are both under the local
\* root causes exactly one remote move from toRemote(srcPath) to
\* toRemote(destPath) and no other remote call.
C6_MovedMovesOnce ==
    (lastEv.kind = "moved" /\ UnderRoot(lastEv.src_path) /\ UnderRoot(lastEv.dest_path))
        => evCalls = <<Call("move", ToRemote(RelOf(lastEv.src_path)),
                                    ToRemote(RelOf(lastEv.dest_path)))>>

\* C6's case: a rename inside the root has been handled.
C6_Witness ==
    /\ lastEv.kind = "moved"
    /\ UnderRoot(lastEv.src_path)
    /\ UnderRoot(lastEv.dest_path)
    /\ lastEv.src_path /= lastEv.dest_path
    /\ Len(evCalls) = 1

\* The upload loop issued an upload right after the i-th call, a stat.
UploadedAfter(i) ==
    /\ i < Len(calls)
    /\ calls[i + 1].op = "upload_sync"
    /\ calls[i + 1].path = calls[i].path

\* C7: for every local file the upload loop has handled: a stat that raised
\* is followed by an upload; a stat that returned modifiedAt T_r is followed
\* by an upload iff the local mtime T_l is greater than T_r.
C7_Staleness ==
    \A i \in DOMAIN calls :
        calls[i].op = "info" =>
            LET T_l == fsFiles[LocalPath(RelOfRemote(calls[i].path))]
                T_r == calls[i].t
            IN  /\ calls[i].res = "raise" => UploadedAfter(i)
                /\ calls[i].res = "info" => (UploadedAfter(i) <=> T_l > T_r)

\* The second pass ends; it follows a completed first pass, no remote call
\* has failed, no event was handled in between and no signal disturbs it.
SecondPassEnds ==
    PassEnds /\ pass = 2 /\ passesDone = 1 /\ faults = 0 /\ events = 0 /\ sig = "none"

\* C8: a second pass that follows a completed first pass, with no remote
\* failure and no change in between, issues no delete, no mkdir and no
\* upload, leaves its counters at zero and stats (then skips) every file.
C8_SecondPassIdle ==
    SecondPassEnds
        => /\ \A i \in DOMAIN calls : calls[i].op \in {"mkdirRoot", "list", "info"}
           /\ cnt = ZeroCounts
           /\ \A f \in local_files : Count("info", ToRemote(f)) = 1

\* Where main is during the reconciliation pass and during the idle wait.
PassOrWait ==
    {"scanLocal", "scanRemote", "delFiles", "delDirs", "mkdirs", "uploads",
     "inStat", "idle"}

\* C9: once the interrupt signal has arrived during the reconciliation pass
\* (a stat call in progress included) or during the idle wait, the process
\* eventually ends with the observer stopped and joined and main returned
\* normally.
C9_GracefulShutdown ==
    (sig \in PassOrWait) ~> (pc = "exited" /\ retval = <<0>> /\ obs = "joined")

\* C10: the process exit code is 0 after a clean shutdown and 1 after a
\* startup fault that reached main's fatal-error handler.
C10_ExitCode ==
    pc = "exited" =>
        /\ retval = <<0>> => exitCode = <<0>>
        /\ retval = <<1>> => exitCode = <<1>>

\* The phase of startup_sync a logged remote call belongs to.
Phase(op) ==
    CASE op = "list" -> 1
      [] op = "cleanFile" -> 2
      [] op = "cleanDir" -> 3
      [] op = "mkdir" -> 4
      [] op \in {"info", "upload_sync"} -> 5

\* The calls of startup_sync in the log (the first entry is main's mkdir of
\* the remote root).
SyncCalls == {i \in DOMAIN calls : calls[i].op /= "mkdirRoot"}

\* C11: within startup_sync every list call precedes every delete, every file
\* delete precedes every directory delete, every delete precedes every mkdir
\* and every mkdir precedes every stat and every upload.
C11_PhaseOrder ==
    \A i, j \in SyncCalls : i < j => Phase(calls[i].op) <= Phase(calls[j].op)

\* C11's case: a pass that has listed, deleted a file and a directory,
\* attempted a mkdir and uploaded.
C11_Witness ==
    /\ PassEnds
    /\ \A op \in {"list", "cleanFile", "cleanDir", "mkdir", "info", "upload_sync"} :
          Issued(op) /= {}

\* The positions in the log of the directory delete of remote path p.
DirDeletes(p) == {i \in DOMAIN calls : calls[i].op = "cleanDir" /\ calls[i].path = p}

\* C12: of two scanned remote directories that are both absent locally, one
\* a proper descendant of the other, startup_sync deletes the descendant and
\* afterwards the ancestor; no directory delete follows the delete of one of
\* its ancestors.
C12_DeepestFirst ==
    /\ \A i, j \in DOMAIN calls :
          (/\ calls[i].op = "cleanDir"
           /\ calls[j].op = "cleanDir"
           /\ Below(calls[i].path, calls[j].path)) => i < j
    /\ pc \in {"mkdirs", "uploads", "inStat"} =>
          \A d, e \in remote_dirs \ local_dirs :
              Below(e, d) =>
                  \E i \in DirDeletes(ToRemote(e)), j \in DirDeletes(ToRemote(d)) : i < j

\* C12's case: the directory-delete loop is over and has deleted a directory
\* and a directory below it.
C12_Witness ==
    /\ pc = "mkdirs"
    /\ cnt.deleted_dirs = 2
    /\ \E d, e \in remote_dirs \ local_dirs : Below(e, d)

\* Where main is while startup_sync runs.
InPass ==
    {"scanLocal", "scanRemote", "delFiles", "delDirs", "mkdirs", "uploads", "inStat"}

\* The stat of remote path p, once logged, raised.
StatRaised(p) == \E i \in DOMAIN calls : calls[i] = StatCall(p, Info(<<>>, TRUE))

\* Every item of a phase that is over has been attempted, whichever calls
\* failed, and no exception has ended startup_sync.
AllAttempted ==
    /\ pc \in InPass => retval = <<>> /\ exitCode = <<>>
    /\ pc \in {"delDirs", "mkdirs", "uploads", "inStat"} =>
          \A f \in remote_files \ local_files : Count("cleanFile", ToRemote(f)) = 1
    /\ pc \in {"mkdirs", "uploads", "inStat"} =>
          \A d \in remote_dirs \ local_dirs : Count("cleanDir", ToRemote(d)) = 1
    /\ pc \in {"uploads", "inStat"} =>
          \A d \in local_dirs : Count("mkdir", ToRemote(d)) = 1
    /\ PassEnds =>
          \A f \in local_files :
              /\ Count("info", ToRemote(f)) = 1
              /\ Count("upload_sync", ToRemote(f)) <= 1
              /\ StatRaised(ToRemote(f)) => Count("upload_sync", ToRemote(f)) = 1

\* C13: whichever remote calls fail, startup_sync attempts every item of
\* every phase and returns normally (unless the interrupt signal ends the
\* process first).
C13_FaultIsolation ==
    /\ []AllAttempted
    /\ (pc = "scanLocal") ~> (pc = "startObs" \/ sig /= "none")

\* C13's case: of two file deletes one failed and the other was still
\* issued and succeeded, and the pass went on to its end.
C13_Witness ==
    /\ PassEnds
    /\ faults = 1
    /\ Cardinality(Issued("cleanFile")) = 2
    /\ cnt.deleted_count = 1

\* The remote paths whose client.list call raised during the scan.
FailedLists ==
    {calls[i].path : i \in {j \in DOMAIN calls :
                                calls[j].op = "list" /\ calls[j].res = "raise"}}

\* The scan has just ended: no delete has changed the store since.
AfterScan == pc = "delFiles" /\ visited = {}

\* Collection s and everything below it was listed without a failure.
ListedWhole(s) ==
    \A a \in rdirs : (a = s \/ Below(a, s)) => a \in Issued("list") \ FailedLists

\* C14: after a scan in which client.list failed for a directory p below the
\* root, p is recorded in remote_dirs and, for every sibling directory of p
\* whose subtree was listed, the inventory holds all that a scan of that
\* subtree records; after a scan in which the listing of the root failed the
\* inventory is empty, the pass issues no delete, and it still attempts the
\* mkdir of every local directory and the stat of every local file.
C14_PartialListing ==
    /\ AfterScan =>
          \A p \in FailedLists \cap rdirs : p /= REMOTE_DIR =>
              /\ RelOfRemote(p) \in remote_dirs
              /\ \A s \in rdirs : (s /= p /\ Parent(s) = Parent(p)) =>
                    /\ s \in Issued("list")
                    /\ ListedWhole(s) =>
                          /\ list_remote_recursive(s, {}).files \subseteq remote_files
                          /\ list_remote_recursive(s, {}).dirs \subseteq remote_dirs
    /\ REMOTE_DIR \in FailedLists =>
          /\ remote_files = {} /\ remote_dirs = {}
          /\ Issued("cleanFile") = {} /\ Issued("cleanDir") = {}
          /\ pc \in {"uploads", "inStat"} =>
                \A d \in local_dirs : Count("mkdir", ToRemote(d)) = 1
          /\ PassEnds => \A f \in local_files : Count("info", ToRemote(f)) = 1

\* C14's case: the listing of a failed, its sibling c was listed and the
\* file in c recorded.
C14_Witness ==
    /\ AfterScan
    /\ FailedLists = {RemoteOf(DirA)}
    /\ RemoteOf(DirC) \in Issued("list")
    /\ Str(FileK) \in remote_files

\* C15: after a scan in which no listing failed, remote_files holds exactly
\* the relative paths of the files under the remote root and remote_dirs
\* exactly those of the directories, also for directories whose name is, or
\* begins with, the root folder's name.
C15_ExactMapping ==
    (AfterScan /\ FailedLists = {})
        => (remote_files = RemoteFileSet /\ remote_dirs = RemoteDirSet)

\* The path is LOCAL_DIR or lies below it.
Descendant(path) == StartsWith(path, LOCAL_DIR)

\* The event carries a path that is not under the local root.
OutsideRoot(event) ==
    \/ ~Descendant(event.src_path)
    \/ event.kind = "moved" /\ ~Descendant(event.dest_path)

\* C16: the handler of an event whose path (for Moved: source or
\* destination) is not under the local root issues no remote operation, for
\* every kind of event.
C16_OutsideRejected ==
    (lastEv.kind /= "none" /\ OutsideRoot(lastEv)) => evCalls = <<>>

\* C16's case: a move from inside the root to a path outside it was handled.
C16_Witness ==
    /\ lastEv.kind = "moved"
    /\ Descendant(lastEv.src_path)
    /\ ~Descendant(lastEv.dest_path)
    /\ evCalls = <<>>

\* Where main is before obs.start(): startup and the reconciliation pass.
BeforeObserver == {"init", "mkLocal", "mkRemote", "startObs"} \cup InPass

\* C17: until startup_sync has returned and main has started the observer,
\* no observer runs, no event has been handled or queued and no handler has
\* issued a remote call; once a handler has run, the pass is over.
C17_SyncBeforeWatch ==
    /\ pc \in BeforeObserver =>
          (obs = "none" /\ lastEv = NoEvent /\ evCalls = <<>> /\ pending = {})
    /\ obs /= "none" => (pc \notin InPass /\ calls = <<>>)

\* C17's case: after the pass an event was handled and its remote call issued.
C17_Witness ==
    /\ passesDone = 1
    /\ lastEv.kind /= "none"
    /\ Len(evCalls) = 1

\* main has just seen client.mkdir(REMOTE_DIR) raise.
RootMkdirFailed ==
    /\ pc = "scanLocal"
    /\ Len(calls) = 1
    /\ calls[1].op = "mkdirRoot"
    /\ calls[1].res = "raise"

\* C18: main takes its fatal path only before its first remote call, never
\* after the mkdir of the remote root; whether that mkdir succeeds or raises,
\* main goes on to startup_sync, and after a failed mkdir the pass still runs
\* and the observer is still started (unless the interrupt signal ends the
\* process first).
C18_RootMkdirWarning ==
    /\ [](retval = <<1>> => (calls = <<>> /\ passesDone = 0 /\ obs = "none"))
    /\ [][(pc = "mkRemote" /\ sig' = sig /\ created' = created)
             => (pc' = "scanLocal" /\ retval' = <<>>)]_vars
    /\ RootMkdirFailed ~> (obs = "running" \/ sig /= "none")

\* C18's case: the remote root is missing because its mkdir failed, and the
\* observer has been started after the pass.
C18_Witness ==
    /\ obs = "running"
    /\ passesDone = 1
    /\ REMOTE_DIR \notin rdirs

\* main sleeps in its wait loop, the observer runs and its queue is empty:
\* nothing further happens unless the local tree changes again.
AtRest == pc = "idle" /\ obs = "running" /\ pending = {}

\* C19: once the program is at rest and no remote call has failed, every
\* file that appeared in the local tree after the program started (and still
\* exists) is in the remote store.
C19_NoLostCreate ==
    (AtRest /\ faults = 0)
        => \A q \in created \cap DOMAIN fsFiles :
               RemoteOf(relative_to(q, LOCAL_DIR).rel) \in DOMAIN rfiles

====
